---- MODULE Spec2Model ----
(***************************************************************************)
(* A model of FxHashMap (src/src/hashmap.rs): an open-addressing hash map  *)
(* with a probe-sequence-length (psl) collision policy.  The backing       *)
(* vector `inner` is a sequence of slots; Rust's 0-based index i is the    *)
(* element i + 1 of the sequence.  The hasher is abstracted to a function  *)
(* from keys to digests, chosen arbitrarily when the map is constructed.   *)
(***************************************************************************)
EXTENDS Integers, Sequences, FiniteSets, TLC

\* ---------------------------------------------------------------- bounds
NumKeys == 3
MaxDigest == 3
MaxInitCap == 3
MaxInserts == 4

\* The stack: the number of nested insert_entry calls it has room for.
MaxDepth == 12

Keys == 1..NumKeys
Digests == 0..MaxDigest

\* ---------------------------------------------------- program constants
INITIAL_SIZE == 4

VARIABLES
    inner,           \* Vec<MapEntry<K, V>>: the backing vector
    hasher_builder,  \* the hash provider: key -> digest
    num_items,       \* the item counter returned by len()
    latest,          \* per key, the value of its most recent insert (0: never inserted)
    inserts,         \* number of insert calls made so far
    last             \* what the most recent call did and returned

vars == <<inner, hasher_builder, num_items, latest, inserts, last>>

\* ------------------------------------------------------------ map entries
VacantEntry == [tag |-> "Vacant"]
Occupied(entry) == [tag |-> "Occupied", entry |-> entry]
Entry(key, value, hash, psl) == [key |-> key, value |-> value, hash |-> hash, psl |-> psl]

IsOccupied(slot) == slot.tag = "Occupied"

\* Option<&V> as returned by get; Panic is the abnormal termination of the call.
None == [tag |-> "None"]
Some(v) == [tag |-> "Some", value |-> v]
Panic == [tag |-> "Panic"]

\* The abort of the process when the recursion of insert_entry runs out of stack.
StackOverflow == [tag |-> "StackOverflow"]

\* What one call did: tail appends, psl swaps <<displacing key, displaced key>>, resizes;
\* depth is the number of insert_entry frames waiting on a recursive call, and
\* overflow tells that a recursive call found no stack left.
NoTrace == [pushes |-> 0, swaps |-> {}, resizes |-> 0, depth |-> 0, overflow |-> FALSE]

\* ----------------------------------------------------------- constructors
RECURSIVE Vacants(_)
\* inner.extend((0..n).map(|_| MapEntry::default())): a vector of n Vacant slots.
Vacants(n) == IF n = 0 THEN << >> ELSE Append(Vacants(n - 1), VacantEntry)

with_hasher(h) ==
    [inner |-> << >>, hasher_builder |-> h, num_items |-> 0, trace |-> NoTrace]

new(h) ==
    [inner |-> << >>, hasher_builder |-> h, num_items |-> 0, trace |-> NoTrace]

\* with_capacity allocating one slot too many.
with_capacity_off_by_one(initial_capacity, h) ==
    [inner |-> Vacants(initial_capacity + 1),
     hasher_builder |-> h, num_items |-> 0, trace |-> NoTrace]

with_capacity(initial_capacity, h) ==
    [inner |-> Vacants(initial_capacity),
     hasher_builder |-> h, num_items |-> 0, trace |-> NoTrace]

with_capacity_and_hasher(initial_capacity, h) ==
    [with_hasher(h) EXCEPT !.inner = Vacants(initial_capacity)]

\* ------------------------------------------------------------- accessors
len(self) == self.num_items

capacity(self) == Len(self.inner)

hash_key(self, key) == self.hasher_builder[key]

\* ----------------------------------------------------------- insert_entry
RECURSIVE insert_entry(_, _)
RECURSIVE probe(_, _, _)

RECURSIVE probe_overwriting_tail(_, _, _)
\* probe overwriting the last slot, instead of pushing, when it reaches the end.
probe_overwriting_tail(self, entry, i) ==
    LET cur == self.inner[i + 1] IN
    IF IsOccupied(cur)
    THEN IF cur.entry.key = entry.key
         THEN [self EXCEPT !.inner[i + 1] = Occupied(entry)]
         ELSE IF entry.psl > cur.entry.psl
         THEN IF self.trace.depth = MaxDepth
              THEN [self EXCEPT !.inner[i + 1] = Occupied(entry), !.trace.overflow = TRUE]
              ELSE LET swapped == [self EXCEPT !.inner[i + 1] = Occupied(entry),
                                               !.trace.swaps = @ \cup {<<entry.key, cur.entry.key>>},
                                               !.trace.depth = @ + 1]
                       after == insert_entry(swapped, cur.entry)
                   IN IF after.trace.overflow THEN after
                      ELSE [after EXCEPT !.num_items = @ + 1, !.trace.depth = @ - 1]
         ELSE IF i + 1 = Len(self.inner)
         THEN [self EXCEPT !.inner[i + 1] = Occupied(entry),
                           !.num_items = @ + 1,
                           !.trace.pushes = @ + 1]
         ELSE probe_overwriting_tail(self, [entry EXCEPT !.psl = @ + 1], i + 1)
    ELSE [self EXCEPT !.inner[i + 1] = Occupied(entry), !.num_items = @ + 1]

\* One iteration of the loop of insert_entry (lines 93-122) with index i.
probe(self, entry, i) ==
    LET cur == self.inner[i + 1] IN
    IF IsOccupied(cur)
    THEN IF cur.entry.key = entry.key
         THEN \* update in place; return without counting
              [self EXCEPT !.inner[i + 1] = Occupied(entry)]
         ELSE IF entry.psl > cur.entry.psl
         THEN \* the incoming entry takes the slot, the occupant is re-inserted by a
              \* recursive call, which aborts the process when the stack is used up
              IF self.trace.depth = MaxDepth
              THEN [self EXCEPT !.inner[i + 1] = Occupied(entry), !.trace.overflow = TRUE]
              ELSE LET swapped == [self EXCEPT !.inner[i + 1] = Occupied(entry),
                                               !.trace.swaps = @ \cup {<<entry.key, cur.entry.key>>},
                                               !.trace.depth = @ + 1]
                       after == insert_entry(swapped, cur.entry)
                   IN IF after.trace.overflow THEN after
                      ELSE [after EXCEPT !.num_items = @ + 1, !.trace.depth = @ - 1]
         ELSE IF i + 1 = Len(self.inner)
         THEN \* reached the end of the vector: push to the back
              [self EXCEPT !.inner = Append(@, Occupied(entry)),
                           !.num_items = @ + 1,
                           !.trace.pushes = @ + 1]
         ELSE probe(self, [entry EXCEPT !.psl = @ + 1], i + 1)
    ELSE \* insert into the vacancy
         [self EXCEPT !.inner[i + 1] = Occupied(entry), !.num_items = @ + 1]

insert_entry(self, entry) ==
    LET slot == entry.hash % Len(self.inner) IN
    IF ~IsOccupied(self.inner[slot + 1])
    THEN [self EXCEPT !.inner[slot + 1] = Occupied(entry), !.num_items = @ + 1]
    ELSE probe(self, entry, slot)

\* ----------------------------------------------------------------- resize
RECURSIVE transfer(_, _, _)
\* The drain of the old vector from its j-th slot on (lines 184-195): Vacant slots
\* are filtered out, each Occupied entry is placed into new_map as it is.  Nothing
\* runs after a stack overflow.
transfer(new_map, old, j) ==
    IF j > Len(old) \/ new_map.trace.overflow THEN new_map
    ELSE IF old[j].tag = "Occupied"
         THEN transfer(insert_entry(new_map, old[j].entry), old, j + 1)
         ELSE transfer(new_map, old, j + 1)

\* resize tripling the capacity instead of doubling it.
resize_tripling(self) ==
    LET target_size == IF Len(self.inner) = 0 THEN INITIAL_SIZE ELSE 3 * Len(self.inner)
        new_map == with_capacity_and_hasher(target_size, self.hasher_builder)
        moved == transfer(new_map, self.inner, 1)
    IN [moved EXCEPT !.trace.resizes = self.trace.resizes + 1]

resize(self) ==
    LET target_size == IF Len(self.inner) = 0 THEN INITIAL_SIZE ELSE 2 * Len(self.inner)
        new_map == with_capacity_and_hasher(target_size, self.hasher_builder)
        moved == transfer(new_map, self.inner, 1)
    IN [moved EXCEPT !.trace.resizes = self.trace.resizes + 1]

\* ----------------------------------------------------------------- insert
\* The resize test of insert with a load factor of 1 instead of 0.75.
NeedsResizeWhenFull(self) ==
    Len(self.inner) = 0 \/ self.num_items > Len(self.inner)

NeedsResize(self) ==
    Len(self.inner) = 0 \/ self.num_items > (3 * Len(self.inner)) \div 4

insert(self, key, value) ==
    LET grown == IF NeedsResize(self) THEN resize(self) ELSE self
        hash == hash_key(grown, key)
    IN IF grown.trace.overflow THEN grown
       ELSE insert_entry(grown, Entry(key, value, hash, 0))

\* -------------------------------------------------------------------- get
RECURSIVE get_scan_by_hash(_, _, _)
\* get_scan matching an occupant on its digest instead of its key.
get_scan_by_hash(self, key, d) ==
    IF d < Len(self.inner)
    THEN LET cur == self.inner[d + 1] IN
         IF IsOccupied(cur)
         THEN IF cur.entry.hash = hash_key(self, key) THEN Some(cur.entry.value)
              ELSE IF cur.entry.psl < d THEN None
              ELSE get_scan_by_hash(self, key, d + 1)
         ELSE None
    ELSE None

RECURSIVE get_scan(_, _, _)
\* The while loop of get (lines 145-160) with index d.
get_scan(self, key, d) ==
    IF d < Len(self.inner)
    THEN LET cur == self.inner[d + 1] IN
         IF IsOccupied(cur)
         THEN IF cur.entry.key = key THEN Some(cur.entry.value)
              ELSE IF cur.entry.psl < d THEN None
              ELSE get_scan(self, key, d + 1)
         ELSE None
    ELSE None

get(self, key) ==
    LET hash == hash_key(self, key) IN
    IF Len(self.inner) = 0
    THEN Panic   \* hash % 0: attempt to calculate the remainder with a divisor of zero
    ELSE get_scan(self, key, hash % Len(self.inner))

\* ------------------------------------------------------------ the machine
Self == [inner |-> inner, hasher_builder |-> hasher_builder,
         num_items |-> num_items, trace |-> NoTrace]

\* Some slot of the backing vector holds the key (exhaustive scan).
Stored(self, key) ==
    \E i \in 1..Len(self.inner) :
        IsOccupied(self.inner[i]) /\ self.inner[i].entry.key = key

CtorCalls ==
    {[name |-> "new", n |-> 0], [name |-> "with_hasher", n |-> 0]}
    \cup {[name |-> nm, n |-> n] : nm \in {"with_capacity", "with_capacity_and_hasher"},
                                   n \in 0..MaxInitCap}

Construct(c, h) ==
    CASE c.name = "new" -> new(h)
      [] c.name = "with_hasher" -> with_hasher(h)
      [] c.name = "with_capacity" -> with_capacity(c.n, h)
      [] c.name = "with_capacity_and_hasher" -> with_capacity_and_hasher(c.n, h)

\* Keys are only hashed and compared for equality, so the assignments of digests to
\* keys are drawn up to a renaming of the keys.
Hashers == {h \in [Keys -> Digests] : \A a, b \in Keys : a < b => h[a] <= h[b]}

\* The record of the most recent call: a constructor (n: its capacity argument),
\* an insert or a get, with the capacity, count and presence of the key before it.
Call(op, n, key, value, self, trace, result) ==
    [op |-> op, n |-> n, key |-> key, value |-> value,
     cap0 |-> capacity(self), len0 |-> len(self),
     stored0 |-> IF key = 0 THEN FALSE ELSE Stored(self, key),
     trace |-> trace, result |-> result]

Init ==
    \E c \in CtorCalls, h \in Hashers :
        LET m == Construct(c, h) IN
        /\ inner = m.inner
        /\ hasher_builder = m.hasher_builder
        /\ num_items = m.num_items
        /\ latest = [k \in Keys |-> 0]
        /\ inserts = 0
        /\ last = Call(c.name, c.n, 0, 0, m, NoTrace, None)

\* Values are stored and returned but never inspected, so the n-th insert call
\* passes the value n: every call's value differs from all earlier ones.
\* A stack overflow ends the process: the map is not seen again and no call follows.
Running == last.result # StackOverflow

InsertStep(key) ==
    /\ Running
    /\ LET value == inserts + 1
           m == insert(Self, key, value) IN
       IF m.trace.overflow
       THEN /\ last' = Call("insert", 0, key, value, Self, m.trace, StackOverflow)
            /\ UNCHANGED <<inner, hasher_builder, num_items, latest>>
       ELSE /\ inner' = m.inner
            /\ hasher_builder' = m.hasher_builder
            /\ num_items' = m.num_items
            /\ last' = Call("insert", 0, key, value, Self, m.trace, None)
            /\ latest' = [latest EXCEPT ![key] = inserts + 1]
    /\ inserts' = inserts + 1

InsertCall(key) ==
    /\ inserts < MaxInserts
    /\ InsertStep(key)

GetCall(key) ==
    /\ Running
    /\ last' = Call("get", 0, key, 0, Self, NoTrace, get(Self, key))
    /\ UNCHANGED <<inner, hasher_builder, num_items, latest, inserts>>

Next ==
    \/ \E key \in Keys : InsertCall(key)
    \/ \E key \in Keys : GetCall(key)

Spec == Init /\ [][Next]_vars

\* ------------------------------------------- the machine under collisions
\* Longer runs of insert with more keys, for the tables in which every key has
\* the same digest (a hasher under which all the keys collide).
DeepNumKeys == 5
DeepMaxDigest == 1
DeepMaxInitCap == 1
DeepMaxInserts == 6

DeepKeys == 1..DeepNumKeys

DeepHashers == {[k \in DeepKeys |-> d] : d \in 0..DeepMaxDigest}

DeepInit ==
    \E n \in 0..DeepMaxInitCap, h \in DeepHashers :
        LET m == with_capacity(n, h) IN
        /\ inner = m.inner
        /\ hasher_builder = m.hasher_builder
        /\ num_items = m.num_items
        /\ latest = [k \in DeepKeys |-> 0]
        /\ inserts = 0
        /\ last = Call("with_capacity", n, 0, 0, m, NoTrace, None)

\* The keys all have the same digest, so they are introduced in increasing order:
\* a key is inserted once every smaller key has been.
DeepInsertCall(key) ==
    /\ inserts < DeepMaxInserts
    /\ \A j \in 1..(key - 1) : latest[j] # 0
    /\ InsertStep(key)

DeepNext == \E key \in DeepKeys : DeepInsertCall(key)

DeepSpec == DeepInit /\ [][DeepNext]_vars

\* ------------------------------------------------------------- the claims
Inserted(key) == latest[key] # 0
HomeSlot(self, key) == self.inner[(hash_key(self, key) % Len(self.inner)) + 1]

\* C1 (round trip): after any sequence of inserts, get(k) of every inserted key k
\* returns Some(v), v being the value of the most recent insert(k, v).
C1_RoundTrip ==
    \A k \in Keys : Inserted(k) => get(Self, k) = Some(latest[k])

\* C2 (update): an insert of a key that is already stored makes get of that key
\* yield the new value and leaves len() as it was before the call.
C2_UpdateKeepsLen ==
    (last.op = "insert" /\ last.stored0) =>
        /\ get(Self, last.key) = Some(last.value)
        /\ len(Self) = last.len0

\* C3 (new-insertion counting): an insert of a key that is not stored increases
\* len() by exactly 1, so len() equals the number of distinct keys inserted.
C3_NewInsertCountsOne ==
    /\ (last.op = "insert" /\ ~last.stored0) => len(Self) = last.len0 + 1
    /\ len(Self) = Cardinality({k \in Keys : Inserted(k)})

\* C4 (get on an empty table): on a table of capacity 0 get returns None for
\* every key and does not fail.
C4_GetOnEmptyIsNone ==
    (last.op = "get" /\ last.cap0 = 0) => last.result = None

\* C5 (absence): with capacity > 0, get of a key that was never inserted returns
\* None, whatever the digests of the stored keys and of that key.
C5_AbsentKeyIsNone ==
    capacity(Self) > 0 =>
        \A k \in Keys : ~Inserted(k) => get(Self, k) = None

\* C5 witness: a get of a never-inserted key has returned None although the key's
\* home slot holds another key with the very same digest.
C5_Witness ==
    /\ last.op = "get" /\ ~Inserted(last.key) /\ last.result = None
    /\ capacity(Self) > 0
    /\ IsOccupied(HomeSlot(Self, last.key))
    /\ HomeSlot(Self, last.key).entry.hash = hash_key(Self, last.key)

\* C6 (displacement keeps both keys): after an insert that performed a psl swap,
\* the displacing key and the displaced key are both retrievable by get with
\* their own values.
C6_SwapKeepsBothKeys ==
    last.op = "insert" =>
        \A p \in last.trace.swaps :
            /\ get(Self, p[1]) = Some(latest[p[1]])
            /\ get(Self, p[2]) = Some(latest[p[2]])

\* C7 (capacity changes only by resize), as claimed: each insert leaves
\* capacity() unchanged, changes it from 0 to INITIAL_SIZE, or doubles it.
C7_CapacityOnlyByResize ==
    last.op = "insert" =>
        \/ capacity(Self) = last.cap0
        \/ last.cap0 = 0 /\ capacity(Self) = INITIAL_SIZE
        \/ capacity(Self) = 2 * last.cap0

\* C7 as amended: each insert leaves capacity() unchanged, changes it from 0 to
\* INITIAL_SIZE or doubles it, and on top of that adds 1 for every tail append
\* made during the insert; the first insert into a table built with a capacity
\* N > 0 leaves the capacity N.
C7_CapacityByResizeAndTailAppend ==
    last.op = "insert" =>
        /\ \/ capacity(Self) - last.trace.pushes = last.cap0
           \/ last.cap0 = 0 /\ capacity(Self) - last.trace.pushes = INITIAL_SIZE
           \/ capacity(Self) - last.trace.pushes = 2 * last.cap0
        /\ (inserts = 1 /\ last.cap0 > 0) => capacity(Self) = last.cap0

\* C7 witness: an insert has doubled a non-zero capacity and tail-appended as well.
C7_Witness ==
    /\ last.op = "insert" /\ last.cap0 > 0
    /\ last.trace.resizes = 1 /\ last.trace.pushes > 0
    /\ capacity(Self) = 2 * last.cap0 + last.trace.pushes

\* C8 (load-factor trigger, monotonic growth): an insert called with capacity 0
\* or with num_items > 3 * capacity / 4 resizes before placing the entry and
\* leaves capacity() strictly greater; no call ever decreases capacity().
C8_TriggerGrowsCapacity ==
    /\ (last.op = "insert" /\ (last.cap0 = 0 \/ last.len0 > (3 * last.cap0) \div 4)) =>
           /\ last.trace.resizes = 1
           /\ capacity(Self) > last.cap0
    /\ capacity(Self) >= last.cap0

\* C8 witness: an insert found a non-empty table above the load factor and
\* doubled its capacity.
C8_Witness ==
    /\ last.op = "insert" /\ last.cap0 > 0
    /\ last.len0 > (3 * last.cap0) \div 4
    /\ last.trace.resizes = 1
    /\ capacity(Self) >= 2 * last.cap0

\* C9 (constructors): with_capacity(N) and with_capacity_and_hasher(N, h) give
\* capacity() = N, len() = 0 and N Vacant slots; new() and with_hasher(h) give
\* capacity() = 0 and len() = 0.
C9_Constructors ==
    /\ last.op \in {"with_capacity", "with_capacity_and_hasher"} =>
           /\ capacity(Self) = last.n
           /\ len(Self) = 0
           /\ \A i \in 1..last.n : inner[i] = VacantEntry
    /\ last.op \in {"new", "with_hasher"} =>
           /\ capacity(Self) = 0
           /\ len(Self) = 0

\* C9 witness: a table just built by with_capacity(N) with N > 1.
C9_Witness ==
    /\ last.op = "with_capacity" /\ last.n > 1
    /\ capacity(Self) = last.n /\ inner[last.n] = VacantEntry

\* C10 (count bounded by capacity): num_items <= capacity() in every state
\* reachable by constructors and inserts.
C10_CountWithinCapacity ==
    num_items <= capacity(Self)

\* The indices (1-based) of the Occupied slots of a vector, and the entries held
\* there as <<key, value, digest>>.
OccupiedAt(v) == {i \in 1..Len(v) : IsOccupied(v[i])}
Contents(v) == {<<v[i].entry.key, v[i].entry.value, v[i].entry.hash>> : i \in OccupiedAt(v)}

\* C11 (load-factor bound): no insert returns leaving num_items > 0.75 * capacity().
C11_LoadFactorBound ==
    last.op = "insert" => 4 * num_items <= 3 * capacity(Self)

\* C12 (psl invariant): every Occupied slot at index i with digest D has
\* i >= D mod capacity() and psl = i - (D mod capacity()).
C12_PslIsDistanceFromHome ==
    \A i \in OccupiedAt(inner) :
        LET home == inner[i].entry.hash % Len(inner) IN
        /\ i - 1 >= home
        /\ inner[i].entry.psl = (i - 1) - home

\* C13 (get agrees with an exhaustive scan): with capacity > 0, get(k) returns
\* Some exactly when some Occupied slot holds k, and then a value held with k.
C13_GetAgreesWithScan ==
    capacity(Self) > 0 =>
        \A k \in Keys :
            /\ (get(Self, k) # None) <=> Stored(Self, k)
            /\ get(Self, k) # None =>
                   \E i \in OccupiedAt(inner) :
                       inner[i].entry.key = k /\ get(Self, k) = Some(inner[i].entry.value)

\* C14 (resize preserves contents): in a state where the next insert resizes, the
\* resize moves every Occupied entry to the new vector with its key, value and
\* digest, adds none, and leaves len() as it was.
C14_ResizePreservesContents ==
    NeedsResize(Self) =>
        LET resized == resize(Self) IN
        /\ Contents(resized.inner) = Contents(inner)
        /\ Cardinality(OccupiedAt(resized.inner)) = Cardinality(OccupiedAt(inner))
        /\ len(resized) = len(Self)

\* The scan of insert_entry for a fresh entry of the key walks past the last slot:
\* every slot from the home slot to the end is Occupied by another key whose psl
\* is not below the distance walked.
\* C15 (termination): every insert call returns: its probing and its chain of
\* re-insertions of displaced entries come to an end, so no insert call ends with
\* the recursion of insert_entry using up the stack.
C15_InsertTerminates ==
    last.op = "insert" => last.result # StackOverflow

WalksPastEnd(self, key) ==
    LET home == hash_key(self, key) % Len(self.inner) IN
    \A i \in home..(Len(self.inner) - 1) :
        /\ IsOccupied(self.inner[i + 1])
        /\ self.inner[i + 1].entry.key # key
        /\ ~(i - home > self.inner[i + 1].entry.psl)

\* C16 (tail append): an insert_entry scan that walks past the last slot appends
\* the entry as a new last slot, leaving every other slot as it was (no wrap to
\* index 0), so capacity() and num_items each grow by exactly 1; an insert that
\* does not resize appends at most once and then ends with capacity() + 1.
C16_TailAppend ==
    /\ (capacity(Self) > 0 /\ ~NeedsResize(Self)) =>
           \A k \in Keys : WalksPastEnd(Self, k) =>
               LET home == hash_key(Self, k) % Len(inner)
                   appended == Entry(k, inserts + 1, hash_key(Self, k), Len(inner) - 1 - home)
                   m == insert(Self, k, inserts + 1)
               IN /\ m.inner = Append(inner, Occupied(appended))
                  /\ capacity(m) = capacity(Self) + 1
                  /\ len(m) = len(Self) + 1
    /\ (last.op = "insert" /\ last.trace.resizes = 0 /\ last.trace.pushes > 0) =>
           /\ last.trace.pushes = 1
           /\ capacity(Self) = last.cap0 + 1
           /\ IsOccupied(inner[Len(inner)])

\* C16 witness: an insert that did not resize or swap has walked past the last
\* slot and appended its key there.
C16_Witness ==
    /\ last.op = "insert" /\ last.trace.resizes = 0 /\ last.trace.swaps = {}
    /\ last.trace.pushes = 1 /\ last.cap0 > 1
    /\ capacity(Self) = last.cap0 + 1 /\ len(Self) = last.len0 + 1
    /\ inner[Len(inner)].entry.key = last.key

\* C17 (no duplicate keys): no two Occupied slots hold equal keys.
C17_NoDuplicateKeys ==
    \A i, j \in OccupiedAt(inner) :
        i # j => inner[i].entry.key # inner[j].entry.key

\* C18 (no entry is lost): every key ever inserted is held by an Occupied slot,
\* and an Occupied slot holds it with the value of its most recent insert.
C18_NoEntryLost ==
    \A k \in Keys : Inserted(k) =>
        /\ Stored(Self, k)
        /\ \E i \in OccupiedAt(inner) :
               inner[i].entry.key = k /\ inner[i].entry.value = latest[k]

====
